---- MODULE Spec2Model ----
(***************************************************************************)
(* Model of asreview/balance_strategies/triple_balance.py: the triple      *)
(* balance resampling of a training set (ones, random zeros, max zeros).   *)
(*                                                                         *)
(* Python float arithmetic (/, *, +, - on lines 82, 94, 100, 101, 113 and  *)
(* 208) is IEEE-754 binary64 with round-to-nearest-even.  It is modelled   *)
(* bit for bit: a float is a 53 bit mantissa held in limbs of 14 bits and  *)
(* a binary exponent.  Only non-negative, normal values occur.             *)
(***************************************************************************)
EXTENDS Integers, Sequences, FiniteSets, TLC

(***************************************************************************)
(* Natural numbers of up to 112 bits: eight limbs, least significant first *)
(***************************************************************************)
Base == 2^14

Limbs == 1..8

BZero == <<0, 0, 0, 0, 0, 0, 0, 0>>

BInt(n) == <<n % Base, (n \div Base) % Base, n \div (Base * Base), 0, 0, 0, 0, 0>>

BToInt(a) == a[1] + a[2] * Base + a[3] * Base * Base

BIsZero(a) == \A h \in Limbs : a[h] = 0

BOdd(a) == a[1] % 2 = 1

BAdd(a, b) ==
  LET c[h \in 1..9] == IF h = 1 THEN 0 ELSE (a[h-1] + b[h-1] + c[h-1]) \div Base
      f(h) == (a[h] + b[h] + c[h]) % Base
  IN  <<f(1), f(2), f(3), f(4), f(5), f(6), f(7), f(8)>>

\* a - b for a >= b
BSub(a, b) ==
  LET w[h \in 1..9] == IF h = 1 THEN 0
                       ELSE IF a[h-1] - b[h-1] - w[h-1] < 0 THEN 1 ELSE 0
      f(h) == (a[h] - b[h] - w[h] + Base) % Base
  IN  <<f(1), f(2), f(3), f(4), f(5), f(6), f(7), f(8)>>

BGeq(a, b) ==
  LET g[h \in 0..8] == IF h = 0 THEN TRUE
                       ELSE IF a[h] # b[h] THEN a[h] > b[h] ELSE g[h-1]
  IN  g[8]

\* limb i of a, 0 outside 1..8
Limb(a, h) == IF h \in Limbs THEN a[h] ELSE 0

\* a * 2^k (the bits above 112 dropped)
BShl(a, k) ==
  LET q == k \div 14
      r == k % 14
      f(h) == ((Limb(a, h - q) * 2^r) % Base) + (Limb(a, h - q - 1) \div 2^(14 - r))
  IN  <<f(1), f(2), f(3), f(4), f(5), f(6), f(7), f(8)>>

\* a \div 2^k
BShr(a, k) ==
  LET q == k \div 14
      r == k % 14
      f(h) == (Limb(a, h + q) \div 2^r) + ((Limb(a, h + q + 1) % 2^r) * 2^(14 - r))
  IN  <<f(1), f(2), f(3), f(4), f(5), f(6), f(7), f(8)>>

\* a % 2^k # 0
BLowBits(a, k) ==
  LET q == k \div 14
      r == k % 14
  IN  (\E h \in Limbs : h <= q /\ a[h] # 0) \/ Limb(a, q + 1) % 2^r # 0

\* bit k of a (bit 0 the least significant)
BBit(a, k) == (Limb(a, (k \div 14) + 1) \div 2^(k % 14)) % 2 = 1

\* the number of bits of a
BLen(a) ==
  IF BIsZero(a) THEN 0
  ELSE LET top == CHOOSE h \in Limbs : a[h] # 0 /\ \A j \in Limbs : j > h => a[j] = 0
           w   == CHOOSE k \in 1..14 : 2^(k-1) <= a[top] /\ a[top] < 2^k
       IN  14 * (top - 1) + w

\* a * b for a, b < 2^56 (limbs 5..8 zero)
BMul(a, b) ==
  LET col(k) == LET lo == IF k > 4 THEN k - 3 ELSE 1
                    hi == IF k > 4 THEN 4 ELSE k
                    s[h \in (lo-1)..hi] ==
                       IF h = lo - 1 THEN 0 ELSE s[h-1] + a[h] * b[k + 1 - h]
                IN  IF k > 7 THEN 0 ELSE s[hi]
      t[k \in 0..8] == IF k = 0 THEN 0 ELSE col(k) + (t[k-1] \div Base)
      f(k) == t[k] % Base
  IN  <<f(1), f(2), f(3), f(4), f(5), f(6), f(7), f(8)>>

\* a < 2^53
BLt53(a) == a[4] < 2^11 /\ \A h \in 5..8 : a[h] = 0

(***************************************************************************)
(* binary64 values: [m |-> mantissa, e |-> exponent], value m * 2^e, with  *)
(* m = 0 or 2^52 <= m < 2^53                                               *)
(***************************************************************************)
FZero == [m |-> BZero, e |-> 0]

FIsZero(x) == BIsZero(x.m)

\* the binary64 nearest to n * 2^e (+ a nonzero rest below n if sticky),
\* ties to even
FRound(n, e, sticky) ==
  IF BIsZero(n) THEN FZero
  ELSE LET len == BLen(n)
       IN  IF len <= 53 THEN [m |-> BShl(n, 53 - len), e |-> e - (53 - len)]
           ELSE LET s  == len - 53
                    kp == BShr(n, s)
                    g  == BBit(n, s - 1)
                    st == sticky \/ BLowBits(n, s - 1)
                    up == g /\ (st \/ BOdd(kp))
                    m1 == IF up THEN BAdd(kp, BInt(1)) ELSE kp
                IN  IF BLt53(m1) THEN [m |-> m1, e |-> e + s]
                    ELSE [m |-> BShr(m1, 1), e |-> e + s + 1]

FInt(n) == FRound(BInt(n), 0, FALSE)

\* a * t for a limb t
BMulS(a, t) ==
  LET c[h \in 1..9] == IF h = 1 THEN 0 ELSE (a[h-1] * t + c[h-1]) \div Base
      f(h) == (a[h] * t + c[h]) % Base
  IN  <<f(1), f(2), f(3), f(4), f(5), f(6), f(7), f(8)>>

\* r \div d for 2^55 <= d < 2^56 and r < d * 2^14: the estimate from the top
\* limbs is at most 2 too large
DivDigit(r, d) ==
  LET est == (r[5] * Base + r[4]) \div d[4]
      t0  == IF est > Base - 1 THEN Base - 1 ELSE est
  IN  IF BGeq(r, BMulS(d, t0)) THEN t0
      ELSE IF BGeq(r, BMulS(d, t0 - 1)) THEN t0 - 1
      ELSE t0 - 2

\* long division, one limb of the quotient a step: n more limbs of q
RECURSIVE DivLimbs(_, _, _, _)
DivLimbs(r, d, q, n) ==
  IF n = 0 THEN <<q, r>>
  ELSE LET r1 == BShl(r, 14)
           t  == DivDigit(r1, d)
       IN  DivLimbs(BSub(r1, BMulS(d, t)), d, BAdd(BShl(q, 14), BInt(t)), n - 1)

\* x / y for y # 0: the quotient of the mantissas to 56 binary places
FDiv(x, z) ==
  IF FIsZero(x) THEN FZero
  ELSE LET d  == BShl(z.m, 3)
           r0 == BShl(x.m, 3)
           t0 == IF BGeq(r0, d) THEN 1 ELSE 0
           qr == DivLimbs(BSub(r0, BMulS(d, t0)), d, BInt(t0), 4)
       IN  FRound(qr[1], x.e - z.e - 56, ~BIsZero(qr[2]))

FMul(x, z) ==
  IF FIsZero(x) \/ FIsZero(z) THEN FZero
  ELSE FRound(BMul(x.m, z.m), x.e + z.e, FALSE)

FAdd(x, z) ==
  IF FIsZero(x) THEN z
  ELSE IF FIsZero(z) THEN x
  ELSE LET hi == IF x.e >= z.e THEN x ELSE z
           lo == IF x.e >= z.e THEN z ELSE x
           d  == hi.e - lo.e
       IN  IF d > 55 THEN hi
           ELSE FRound(BAdd(BShl(hi.m, d), lo.m), lo.e, FALSE)

\* x - y for x >= y > 0 whose exponents differ by at most 55
FSub(x, z) ==
  LET d == x.e - z.e
  IN  FRound(BSub(BShl(x.m, d), z.m), z.e, FALSE)

\* math.ceil(x) for 0 <= x < 2^31
FCeil(x) ==
  IF FIsZero(x) THEN 0
  ELSE IF x.e >= 0 THEN BToInt(BShl(x.m, x.e))
  ELSE IF -x.e >= 53 THEN 1
  ELSE BToInt(BShr(x.m, -x.e)) + (IF BLowBits(x.m, -x.e) THEN 1 ELSE 0)

(***************************************************************************)
(* Values of the transcendental functions (math.exp, math.log and float     *)
(* power),                                                                 *)
(* as CPython computes them, for the two balance configurations of the      *)
(* model: the defaults of default_kwargs (rand_max_b = 10.0, alpha = 1.0,   *)
(* beta = 0.6, delta = 0.15) and an extreme one inside the parameter space  *)
(* (rand_max_b = 3e56, alpha = 1.0, beta = 2.0, delta = 0.15).              *)
(***************************************************************************)
D(l1, l2, l3, l4, e) == [m |-> <<l1, l2, l3, l4, 0, 0, 0, 0>>, e |-> e]

\* b * exp(-log(b) * (num/den)**alpha) for b = 10.0, alpha = 1.0: row num + 1, column den
RatioDefault ==
  <<<<D(0, 0, 0, 1280, -49), D(0, 0, 0, 1280, -49), D(0, 0, 0, 1280, -49), D(0, 0, 0, 1280, -49), D(0, 0, 0, 1280, -49), D(0, 0, 0, 1280, -49), D(0, 0, 0, 1280, -49), D(0, 0, 0, 1280, -49), D(0, 0, 0, 1280, -49)>>,
    <<D(16382, 16383, 16383, 2047, -53), D(6994, 11113, 1411, 1619, -51), D(8695, 10013, 4042, 1188, -50), D(1574, 11405, 9728, 1439, -50), D(2453, 2258, 4109, 1615, -50), D(8171, 8260, 1764, 1744, -50), D(5762, 15894, 6476, 1842, -50), D(13567, 13398, 11946, 1919, -50), D(5800, 10047, 1884, 1982, -50)>>,
    <<D(6550, 9830, 6553, 1638, -56), D(16382, 16383, 16383, 2047, -53), D(12366, 1249, 1156, 1103, -51), D(6994, 11113, 1411, 1619, -51), D(11742, 15689, 5057, 2038, -51), D(8695, 10013, 4042, 1188, -50), D(2134, 5980, 15491, 1325, -50), D(1574, 11405, 9728, 1439, -50), D(14888, 14589, 11135, 1534, -50)>>,
    <<D(5239, 7864, 11796, 1310, -59), D(2317, 2337, 4406, 1295, -54), D(16382, 16383, 16383, 2047, -53), D(1806, 12625, 15697, 1820, -52), D(3167, 10067, 1406, 1286, -51), D(6994, 11113, 1411, 1619, -51), D(14490, 8240, 8650, 1908, -51), D(2130, 5098, 8897, 1079, -50), D(8695, 10013, 4042, 1188, -50)>>,
    <<D(10744, 3014, 9437, 1048, -62), D(6550, 9830, 6553, 1638, -56), D(4080, 6191, 3191, 1901, -54), D(16382, 16383, 16383, 2047, -53), D(8272, 6993, 15247, 1622, -52), D(12366, 1249, 1156, 1103, -51), D(16061, 6714, 8851, 1373, -51), D(6994, 11113, 1411, 1619, -51), D(11174, 830, 534, 1840, -51)>>,
    <<D(798, 11377, 11822, 1677, -66), D(14958, 14976, 3524, 1036, -57), D(13230, 15106, 14956, 1764, -55), D(14364, 12400, 11059, 1151, -53), D(16382, 16383, 16383, 2047, -53), D(14590, 5857, 433, 1503, -52), D(15764, 13568, 564, 1977, -52), D(2562, 7181, 2348, 1214, -51), D(346, 1013, 10984, 1424, -51)>>,
    <<D(10473, 9101, 2904, 1342, -69), D(5239, 7864, 11796, 1310, -59), D(6550, 9830, 6553, 1638, -56), D(2317, 2337, 4406, 1295, -54), D(5239, 5083, 3287, 1292, -53), D(16382, 16383, 16383, 2047, -53), D(6661, 657, 13818, 1422, -52), D(1806, 12625, 15697, 1820, -52), D(12366, 1249, 1156, 1103, -51)>> >>

\* the same for b = 3e56, alpha = 1.0
RatioExtreme ==
  <<<<D(7293, 3553, 1197, 1566, 135), D(7293, 3553, 1197, 1566, 135), D(7293, 3553, 1197, 1566, 135), D(7293, 3553, 1197, 1566, 135), D(7293, 3553, 1197, 1566, 135), D(7293, 3553, 1197, 1566, 135), D(7293, 3553, 1197, 1566, 135), D(7293, 3553, 1197, 1566, 135), D(7293, 3553, 1197, 1566, 135)>>,
    <<D(16360, 16383, 16383, 2047, -53), D(14588, 107, 14722, 1790, 41), D(2068, 412, 14073, 1078, 73), D(12407, 1989, 11752, 1674, 88), D(5365, 7564, 2924, 1090, 98), D(4045, 7394, 13686, 1299, 104), D(3023, 9639, 10530, 1796, 108), D(12373, 2777, 2431, 1145, 112), D(4571, 15408, 10390, 1742, 114)>>,
    <<D(108, 12522, 1884, 1339, -240), D(16360, 16383, 16383, 2047, -53), D(14717, 13953, 7204, 1486, 10), D(14588, 107, 14722, 1790, 41), D(4210, 11559, 13029, 1517, 60), D(2068, 412, 14073, 1078, 73), D(5163, 16110, 9491, 1030, 82), D(12407, 1989, 11752, 1674, 88), D(6447, 3829, 1656, 1939, 93)>>,
    <<D(794, 5113, 3281, 1751, -428), D(10702, 8675, 89, 1171, -146), D(16360, 16383, 16383, 2047, -53), D(9220, 10093, 2289, 1915, -6), D(9309, 2408, 9359, 1056, 23), D(14588, 107, 14722, 1790, 41), D(2057, 16238, 5068, 1182, 55), D(13221, 7920, 9691, 1224, 65), D(2068, 412, 14073, 1078, 73)>>,
    <<D(13287, 15908, 788, 1145, -615), D(108, 12522, 1884, 1339, -240), D(15197, 14199, 14019, 1410, -115), D(16360, 16383, 16383, 2047, -53), D(15743, 1294, 94, 1471, -15), D(14717, 13953, 7204, 1486, 10), D(10990, 7934, 6198, 1356, 28), D(14588, 107, 14722, 1790, 41), D(1801, 5931, 8043, 1200, 52)>>,
    <<D(7818, 3872, 6771, 1497, -803), D(13639, 6740, 5872, 1531, -334), D(1743, 1871, 14109, 1943, -178), D(10086, 14287, 632, 1095, -99), D(16360, 16383, 16383, 2047, -53), D(14241, 9826, 12123, 1233, -21), D(2903, 15549, 1229, 1556, 1), D(14512, 4865, 8944, 1309, 18), D(9622, 10850, 13694, 1335, 31)>>,
    <<FZero, D(794, 5113, 3281, 1751, -428), D(108, 12522, 1884, 1339, -240), D(10702, 8675, 89, 1171, -146), D(1191, 10619, 10790, 1425, -90), D(16360, 16383, 16383, 2047, -53), D(15776, 5225, 2830, 1785, -26), D(9220, 10093, 2289, 1915, -6), D(14717, 13953, 7204, 1486, 10)>> >>

\* (n_one/n_zero)**beta for beta = 0.6: row n_one + 1, column n_zero
PowDefault ==
  <<<<FZero, FZero, FZero, FZero, FZero, FZero>>,
    <<D(0, 0, 0, 1024, -52), D(4972, 3813, 2885, 1351, -53), D(12720, 15206, 6442, 1059, -53), D(8480, 11119, 14541, 1782, -54), D(15366, 10735, 7754, 1559, -54), D(2408, 5632, 14381, 1397, -54)>>,
    <<D(11868, 3786, 1536, 1552, -52), D(0, 0, 0, 1024, -52), D(12620, 6421, 12122, 1605, -53), D(4972, 3813, 2885, 1351, -53), D(4334, 5827, 14086, 1181, -53), D(12720, 15206, 6442, 1059, -53)>>,
    <<D(9252, 12044, 9476, 1979, -52), D(1864, 5549, 568, 1306, -52), D(0, 0, 0, 1024, -52), D(15624, 11897, 5293, 1723, -53), D(2108, 9170, 6109, 1507, -53), D(4972, 3813, 2885, 1351, -53)>> >>

\* the same for beta = 2.0
PowExtreme ==
  <<<<FZero, FZero, FZero, FZero, FZero, FZero>>,
    <<D(0, 0, 0, 1024, -52), D(0, 0, 0, 1024, -54), D(1820, 12743, 7281, 1820, -56), D(0, 0, 0, 1024, -56), D(5244, 7864, 11796, 1310, -57), D(1820, 12743, 7281, 1820, -58)>>,
    <<D(0, 0, 0, 1024, -50), D(0, 0, 0, 1024, -52), D(1820, 12743, 7281, 1820, -54), D(0, 0, 0, 1024, -54), D(5244, 7864, 11796, 1310, -55), D(1820, 12743, 7281, 1820, -56)>>,
    <<D(0, 0, 0, 1152, -49), D(0, 0, 0, 1152, -51), D(0, 0, 0, 1024, -52), D(0, 0, 0, 1152, -53), D(5898, 655, 9175, 1474, -54), D(0, 0, 0, 1024, -54)>> >>

Delta == D(13107, 3276, 13107, 1228, -55)

ConfigNames == {"default", "extreme"}

(***************************************************************************)
(* Bounds                                                                  *)
(***************************************************************************)
\* len(y): the size of the pool
PoolSize == 4

\* the largest initial fit_kwargs['epochs']
MaxEpochs == 2

\* the largest group size and number of unlabelled samples drawn for
\* _get_triple_dist on its own
MaxGroup == 2

MaxUnlabelled == 2

\* the longest train_idx and provenance list
MaxLen == PoolSize \div 2

Pool == 0..(PoolSize - 1)

(***************************************************************************)
(* The pure functions, lines 45-113                                        *)
(***************************************************************************)
\* frac = (n_one+n_zero_max)/(n_samples-n_zero_rand) raises ZeroDivisionError
\* for a zero denominator; ratio = b * exp(-log(b) * frac**alpha)
_rand_max_weight(k_one, k_zero_rand, k_zero_max, n_samples, conf) ==
  LET num == k_one + k_zero_max
      den == n_samples - k_zero_rand
  IN  IF den = 0 THEN [err |-> TRUE, val |-> FZero]
      ELSE [err |-> FALSE,
            val |-> (IF conf = "default" THEN RatioDefault ELSE RatioExtreme)[num + 1][den]]

\* ratio = (1-delta)*(n_one/n_zero)**beta + delta, for n_zero > 0
_one_zero_ratio(k_one, n_zero, conf) ==
  LET pw == (IF conf = "default" THEN PowDefault ELSE PowExtreme)[k_one + 1][n_zero]
  IN  FAdd(FMul(FSub(FInt(1), Delta), pw), Delta)

\* line 94: n_zero_epoch = ceil(n_one/one_zero_ratio)
ZeroEpoch(k_one, n_zero, conf) ==
  FCeil(FDiv(FInt(k_one), _one_zero_ratio(k_one, n_zero, conf)))

\* lines 99-103: n_zero_rand_epoch
ZeroRandEpoch(wr, n_zero_epoch, k_zero_rand, k_zero_max) ==
  IF k_zero_max # 0
  THEN FCeil(FMul(wr, FDiv(FInt(n_zero_epoch),
                           FAdd(wr, FDiv(FInt(k_zero_max), FInt(k_zero_rand))))))
  ELSE n_zero_epoch

\* lines 104-106: n_zero_max_epoch and the returned triple
TripleDist(k_one, n_zero_epoch, n_zero_rand_epoch) ==
  [err |-> FALSE, one |-> k_one, zero_rand |-> n_zero_rand_epoch,
   zero_max |-> n_zero_epoch - n_zero_rand_epoch, zero |-> n_zero_epoch]

DistError == [err |-> TRUE, one |-> 0, zero_rand |-> 0, zero_max |-> 0, zero |-> 0]

DistWith(k_one, k_zero_rand, k_zero_max, n_zero_epoch, rand_max_wr) ==
  IF rand_max_wr.err THEN DistError
  ELSE TripleDist(k_one, n_zero_epoch,
                  ZeroRandEpoch(rand_max_wr.val, n_zero_epoch, k_zero_rand, k_zero_max))

\* lines 86-106.  The divisions of lines 82, 61 and 100 raise
\* ZeroDivisionError for n_zero = 0, n_samples = n_zero_rand and
\* n_zero_rand = 0 (with n_zero_max # 0).
_get_triple_dist(k_one, k_zero_rand, k_zero_max, n_samples, conf) ==
  IF k_zero_rand + k_zero_max = 0 \/ (k_zero_max # 0 /\ k_zero_rand = 0)
  THEN DistError
  ELSE DistWith(k_one, k_zero_rand, k_zero_max,
                ZeroEpoch(k_one, k_zero_rand + k_zero_max, conf),
                _rand_max_weight(k_one, k_zero_rand, k_zero_max, n_samples, conf))

_n_mini_epoch(n_samples, epoch_size) ==
  IF n_samples <= 0 \/ epoch_size <= 0 THEN 0
  ELSE FCeil(FDiv(FInt(n_samples), FInt(epoch_size)))

\* fault: the minimum in place of the maximum of line 167
Min3(a, b, c) ==
  IF a <= b /\ a <= c THEN a ELSE IF b <= c THEN b ELSE c

\* max(a, b, c) of line 167
Max3(a, b, c) ==
  IF a >= b /\ a >= c THEN a ELSE IF b >= c THEN b ELSE c

\* The calls triple_balance makes of the three functions, evaluated once for
\* the arguments that can occur: group sizes of at most MaxLen and n_samples =
\* PoolSize.
DistOf ==
  [c \in ConfigNames, a \in 0..MaxLen, r \in 0..MaxLen, m \in 0..MaxLen |->
     _get_triple_dist(a, r, m, PoolSize, c)]

\* the largest per-epoch target: ceil(n_one/delta) + 1
MaxTarget == 7 * MaxLen + 1

NMiniOf == [n \in 0..MaxLen, e \in (-1)..MaxTarget |-> _n_mini_epoch(n, e)]

(***************************************************************************)
(* State                                                                   *)
(***************************************************************************)
VARIABLES
  pc,          \* where the caller and triple_balance are
  cfg,         \* the balance configuration (dist_kwargs) of the instance
  shuffle,     \* balance_kwargs['shuffle']
  pref_epochs, \* balance_kwargs['pref_epochs']
  fit_kwargs,  \* the fit configuration, shared by all rounds
  y,           \* the labels of the pool
  train_idx,   \* the training indices of this round
  query_src,   \* query_kwargs["query_src"], owned by the caller
  max_idx, rand_idx,
  one_idx, zero_rand_idx, zero_max_idx,
  n_one, n_zero_rand, n_zero_max,
  epoch,       \* (n_one_epoch, n_zero_rand_epoch, n_zero_max_epoch)
  n_mini_epoch,
  i, new_idx, all_idx,
  ret,         \* the indices of the returned X and y
  outcome,     \* "" | "fallback" | "balanced" | "ZeroDivisionError"
  dist_args, dist_ret  \* a call of _get_triple_dist on its own

instance == <<cfg, shuffle, pref_epochs>>

inputs == <<y, train_idx, query_src>>

locals == <<max_idx, rand_idx, one_idx, zero_rand_idx, zero_max_idx, n_one,
            n_zero_rand, n_zero_max, epoch, n_mini_epoch, i, new_idx, all_idx>>

vars == <<pc, instance, fit_kwargs, inputs, locals, ret, outcome, dist_args, dist_ret>>

(***************************************************************************)
(* Arrays                                                                  *)
(***************************************************************************)
\* fault: a slice that starts one element late
PySliceFromOne(a, start, stop) ==
  IF start + 1 >= stop \/ start + 1 >= Len(a) THEN <<>>
  ELSE SubSeq(a, start + 2, IF stop > Len(a) THEN Len(a) ELSE stop)

\* a[start:stop] of Python and numpy, on a 1-based sequence
PySlice(a, start, stop) ==
  LET n     == Len(a)
      clamp(k) == IF k < -n THEN 0 ELSE IF k < 0 THEN k + n ELSE IF k > n THEN n ELSE k
      lo    == clamp(start)
      hi    == clamp(stop)
  IN  IF lo >= hi THEN <<>> ELSE SubSeq(a, lo + 1, hi)

\* fault: no selection by label
WhereAny(idx, labels, label) == idx

\* idx[np.where(y[idx] == label)]
WhereLabel(idx, labels, label) ==
  LET keep(k) == labels[k] = label IN SelectSeq(idx, keep)

Reverse(a) == [k \in 1..Len(a) |-> a[Len(a) + 1 - k]]

Rotate(a) == IF a = <<>> THEN a ELSE Tail(a) \o <<Head(a)>>

\* np.random.shuffle(a): a permutation of a.  Of the permutations the model
\* draws a itself, its reversal and its rotation by one.
Shuffled(a, on) == IF on THEN {a, Reverse(a), Rotate(a)} ELSE {a}

Range(a) == {a[k] : k \in 1..Len(a)}

Count(a, v) == Cardinality({k \in 1..Len(a) : a[k] = v})

\* the strictly increasing index sequences of at most MaxLen indices
IdxSeqs ==
  {s \in UNION {[1..n -> Pool] : n \in 0..MaxLen} :
     \A k \in 1..(Len(s) - 1) : s[k] < s[k + 1]}

\* train_idx: the first indices of the pool
TrainSets == {[k \in 1..n |-> k - 1] : n \in 0..MaxLen}

\* a pool with its positives first
Labelings == {[j \in Pool |-> IF j < k THEN 1 ELSE 0] : k \in 0..PoolSize}

ProvenanceMaps ==
  {[k \in dom |-> IF k = "max" THEN m ELSE r] :
     dom \in SUBSET {"max", "random"}, m \in IdxSeqs, r \in IdxSeqs}

\* query_kwargs["query_src"].get("max", []), copied into a new array
MaxPool(qs) == IF "max" \in DOMAIN qs THEN qs["max"] ELSE <<>>

\* the other entries of query_src, appended to a new array
RandPool(qs) == IF "random" \in DOMAIN qs THEN qs["random"] ELSE <<>>

\* fault: an append that adds nothing
NotDoubled(a) == a

\* np.append(a, a)
Doubled(a) == a \o a

\* the test of line 138 on the two candidate pools
PoolEmpty(r, m) == Len(r) = 0 \/ Len(m) = 0

\* fault: "and" in place of the "or" of line 149
BothEmpty(zr, zm) == Len(zr) = 0 /\ Len(zm) = 0

\* the test of line 149 on the two groups of zeros
GroupEmpty(zr, zm) == Len(zr) = 0 \/ Len(zm) = 0

\* full_sample(X, y, train_idx): X[train_idx], y[train_idx]
full_sample(t) == t

NoKwargs == [k \in {} |-> 0]

\* no result of _get_triple_dist yet
NoDist == [err |-> FALSE, one |-> 0, zero_rand |-> 0, zero_max |-> 0, zero |-> 0]

(***************************************************************************)
(* TripleBalanceTD.__init__, lines 18-23                                   *)
(***************************************************************************)
Init ==
  /\ pc = "idle"
  /\ cfg \in ConfigNames
  /\ shuffle \in BOOLEAN
  /\ fit_kwargs \in {NoKwargs} \cup {[epochs |-> e] : e \in 1..MaxEpochs}
  /\ pref_epochs = IF "epochs" \in DOMAIN fit_kwargs THEN fit_kwargs.epochs ELSE 1
  /\ y = [j \in Pool |-> 0]
  /\ train_idx = <<>>
  /\ query_src = NoKwargs
  /\ max_idx = <<>> /\ rand_idx = <<>>
  /\ one_idx = <<>> /\ zero_rand_idx = <<>> /\ zero_max_idx = <<>>
  /\ n_one = 0 /\ n_zero_rand = 0 /\ n_zero_max = 0
  /\ epoch = <<0, 0, 0>>
  /\ n_mini_epoch = 0
  /\ i = 0 /\ new_idx = <<>> /\ all_idx = <<>>
  /\ ret = <<>>
  /\ outcome = ""
  /\ dist_args = <<0, 1, 0, 1, "default">>
  /\ dist_ret = NoDist

(***************************************************************************)
(* triple_balance, lines 116-209                                           *)
(***************************************************************************)
\* a training round calls triple_balance with the data of that round;
\* lines 127-131
Call ==
  /\ pc = "idle"
  /\ \E yy \in Labelings, t \in TrainSets, qs \in ProvenanceMaps :
       /\ y' = yy
       /\ train_idx' = t
       /\ query_src' = qs
       /\ max_idx' = MaxPool(qs)
       /\ rand_idx' = RandPool(qs)
  /\ pc' = "shuffle"
  /\ UNCHANGED <<instance, fit_kwargs, one_idx, zero_rand_idx, zero_max_idx, n_one,
                 n_zero_rand, n_zero_max, epoch, n_mini_epoch, i, new_idx, all_idx,
                 ret, outcome, dist_args, dist_ret>>

\* fault: the shuffle of lines 134-136 on the caller's lists themselves
ShuffleInPlace ==
  /\ pc = "shuffle"
  /\ rand_idx' \in Shuffled(rand_idx, shuffle)
  /\ max_idx' \in Shuffled(max_idx, shuffle)
  /\ query_src' = [k \in DOMAIN query_src |-> IF k = "max" THEN max_idx' ELSE rand_idx']
  /\ pc' = "group"
  /\ UNCHANGED <<instance, fit_kwargs, y, train_idx, one_idx, zero_rand_idx,
                 zero_max_idx, n_one, n_zero_rand, n_zero_max, epoch, n_mini_epoch, i,
                 new_idx, all_idx, ret, outcome, dist_args, dist_ret>>

\* lines 134-136
Shuffle ==
  /\ pc = "shuffle"
  /\ rand_idx' \in Shuffled(rand_idx, shuffle)
  /\ max_idx' \in Shuffled(max_idx, shuffle)
  /\ pc' = "group"
  /\ UNCHANGED <<instance, fit_kwargs, inputs, one_idx, zero_rand_idx, zero_max_idx,
                 n_one, n_zero_rand, n_zero_max, epoch, n_mini_epoch, i, new_idx,
                 all_idx, ret, outcome, dist_args, dist_ret>>

\* lines 138-142
FallbackA ==
  /\ pc = "group"
  /\ PoolEmpty(rand_idx, max_idx)
  /\ ret' = full_sample(train_idx)
  /\ outcome' = "fallback"
  /\ pc' = "done"
  /\ UNCHANGED <<instance, fit_kwargs, inputs, locals, dist_args, dist_ret>>

\* lines 144-170
Group ==
  /\ pc = "group"
  /\ ~PoolEmpty(rand_idx, max_idx)
  /\ one_idx' = WhereLabel(train_idx, y, 1)
  /\ zero_max_idx' = WhereLabel(max_idx, y, 0)
  /\ zero_rand_idx' = WhereLabel(rand_idx, y, 0)
  /\ IF GroupEmpty(zero_rand_idx', zero_max_idx')
     THEN /\ ret' = full_sample(train_idx)
          /\ outcome' = "fallback"
          /\ pc' = "done"
          /\ UNCHANGED <<n_one, n_zero_rand, n_zero_max, epoch, n_mini_epoch>>
     ELSE /\ n_one' = Len(one_idx')
          /\ n_zero_rand' = Len(zero_rand_idx')
          /\ n_zero_max' = Len(zero_max_idx')
          /\ \E d \in {DistOf[cfg, n_one', n_zero_rand', n_zero_max']} :
               IF d.err
               THEN /\ outcome' = "ZeroDivisionError"
                    /\ pc' = "error"
                    /\ UNCHANGED <<epoch, n_mini_epoch, ret>>
               ELSE /\ epoch' = <<d.one, d.zero_rand, d.zero_max>>
                    /\ n_mini_epoch' =
                         Max3(NMiniOf[n_one', d.one],
                              NMiniOf[n_zero_rand', d.zero_rand],
                              NMiniOf[n_zero_max', d.zero_max])
                    /\ pc' = "replicate"
                    /\ UNCHANGED <<ret, outcome>>
  /\ UNCHANGED <<instance, fit_kwargs, inputs, max_idx, rand_idx, i, new_idx, all_idx,
                 dist_args, dist_ret>>

\* the conditions of the three while loops, lines 173-180
OneShort == Len(one_idx) < epoch[1] * n_mini_epoch

RandShort == epoch[2] # 0 /\ Len(zero_rand_idx) < epoch[2] * n_mini_epoch

MaxShort == epoch[3] # 0 /\ Len(zero_max_idx) < epoch[3] * n_mini_epoch

\* lines 173-174
ReplicateOne ==
  /\ pc = "replicate"
  /\ OneShort
  /\ one_idx' = Doubled(one_idx)
  /\ UNCHANGED <<pc, instance, fit_kwargs, inputs, max_idx, rand_idx, zero_rand_idx,
                 zero_max_idx, n_one, n_zero_rand, n_zero_max, epoch, n_mini_epoch, i,
                 new_idx, all_idx, ret, outcome, dist_args, dist_ret>>

\* lines 175-177
ReplicateRand ==
  /\ pc = "replicate"
  /\ ~OneShort
  /\ RandShort
  /\ zero_rand_idx' = Doubled(zero_rand_idx)
  /\ UNCHANGED <<pc, instance, fit_kwargs, inputs, max_idx, rand_idx, one_idx,
                 zero_max_idx, n_one, n_zero_rand, n_zero_max, epoch, n_mini_epoch, i,
                 new_idx, all_idx, ret, outcome, dist_args, dist_ret>>

\* lines 178-180
ReplicateMax ==
  /\ pc = "replicate"
  /\ ~OneShort
  /\ ~RandShort
  /\ MaxShort
  /\ zero_max_idx' = Doubled(zero_max_idx)
  /\ UNCHANGED <<pc, instance, fit_kwargs, inputs, max_idx, rand_idx, one_idx,
                 zero_rand_idx, n_one, n_zero_rand, n_zero_max, epoch, n_mini_epoch, i,
                 new_idx, all_idx, ret, outcome, dist_args, dist_ret>>

\* the three loops are over
Replicated == pc = "build" \/ (pc = "replicate" /\ ~OneShort /\ ~RandShort /\ ~MaxShort)

\* the three slices of mini epoch k, concatenated: lines 185-192
MiniEpoch(k) ==
  PySlice(one_idx, k * epoch[1], (k + 1) * epoch[1])
    \o PySlice(zero_rand_idx, k * epoch[2], (k + 1) * epoch[2])
    \o PySlice(zero_max_idx, k * epoch[3], (k + 1) * epoch[3])

\* one iteration of the loop of lines 184-195
Build ==
  /\ Replicated
  /\ i < n_mini_epoch
  /\ new_idx' \in Shuffled(MiniEpoch(i), shuffle)
  /\ all_idx' = all_idx \o new_idx'
  /\ i' = i + 1
  /\ pc' = "build"
  /\ UNCHANGED <<instance, fit_kwargs, inputs, max_idx, rand_idx, one_idx,
                 zero_rand_idx, zero_max_idx, n_one, n_zero_rand, n_zero_max, epoch,
                 n_mini_epoch, ret, outcome, dist_args, dist_ret>>

\* fault: the quotient rounded down
NewEpochsFloor(pref, n_mini) == pref \div n_mini

\* ceil(pref_epochs/(efrac*n_mini_epoch)) with efrac = 1.0, line 206-208
NewEpochs(pref, n_mini) == FCeil(FDiv(FInt(pref), FMul(FInt(1), FInt(n_mini))))

NewEpochsOf == [p \in 1..MaxEpochs, n \in 1..MaxLen |-> NewEpochs(p, n)]

\* lines 197-209.  Lines 199-202 divide by n_one, n_zero_rand and n_zero_max
\* (the two last are not 0 here), line 208 by efrac*n_mini_epoch.
SetEpochs ==
  /\ Replicated
  /\ i >= n_mini_epoch
  /\ IF "epochs" \in DOMAIN fit_kwargs
     THEN IF n_one = 0 \/ n_mini_epoch = 0
          THEN /\ outcome' = "ZeroDivisionError"
               /\ pc' = "error"
               /\ UNCHANGED <<fit_kwargs, ret>>
          ELSE /\ fit_kwargs' = [epochs |-> NewEpochsOf[pref_epochs, n_mini_epoch]]
               /\ ret' = all_idx
               /\ outcome' = "balanced"
               /\ pc' = "done"
     ELSE /\ ret' = all_idx
          /\ outcome' = "balanced"
          /\ pc' = "done"
          /\ UNCHANGED fit_kwargs
  /\ UNCHANGED <<instance, inputs, locals, dist_args, dist_ret>>

\* the call is over (it returned or raised): its locals are gone, and the
\* caller goes on to the next round, whose data are new
Return ==
  /\ pc \in {"done", "error"}
  /\ pc' = "idle"
  /\ y' = [j \in Pool |-> 0]
  /\ train_idx' = <<>>
  /\ query_src' = NoKwargs
  /\ max_idx' = <<>> /\ rand_idx' = <<>>
  /\ one_idx' = <<>> /\ zero_rand_idx' = <<>> /\ zero_max_idx' = <<>>
  /\ n_one' = 0 /\ n_zero_rand' = 0 /\ n_zero_max' = 0
  /\ epoch' = <<0, 0, 0>>
  /\ n_mini_epoch' = 0
  /\ i' = 0 /\ new_idx' = <<>> /\ all_idx' = <<>>
  /\ ret' = <<>>
  /\ outcome' = ""
  /\ UNCHANGED <<instance, fit_kwargs, dist_args, dist_ret>>

Next ==
  \/ Call
  \/ Shuffle
  \/ FallbackA
  \/ Group
  \/ ReplicateOne
  \/ ReplicateRand
  \/ ReplicateMax
  \/ Build
  \/ SetEpochs
  \/ Return

Spec == Init /\ [][Next]_vars

\* a while loop whose condition holds runs its body
FairSpec ==
  Spec /\ WF_vars(ReplicateOne) /\ WF_vars(ReplicateRand) /\ WF_vars(ReplicateMax)

(***************************************************************************)
(* _get_triple_dist called on its own, lines 86-106                        *)
(***************************************************************************)
\* (n_one, n_zero_rand, n_zero_max, n_samples, configuration): groups of at
\* most MaxGroup samples in a pool with at most MaxUnlabelled more samples
DistArgs ==
  {<<a, r, m, a + r + m + u, c>> :
     a \in 0..MaxGroup, r \in 0..MaxGroup, m \in 0..MaxGroup,
     u \in 0..MaxUnlabelled, c \in ConfigNames}

InitDist ==
  /\ pc = "dist"
  /\ cfg = "default"
  /\ shuffle = FALSE
  /\ fit_kwargs = NoKwargs
  /\ pref_epochs = 1
  /\ y = [j \in Pool |-> 0]
  /\ train_idx = <<>>
  /\ query_src = NoKwargs
  /\ max_idx = <<>> /\ rand_idx = <<>>
  /\ one_idx = <<>> /\ zero_rand_idx = <<>> /\ zero_max_idx = <<>>
  /\ n_one = 0 /\ n_zero_rand = 0 /\ n_zero_max = 0
  /\ epoch = <<0, 0, 0>>
  /\ n_mini_epoch = 0
  /\ i = 0 /\ new_idx = <<>> /\ all_idx = <<>>
  /\ ret = <<>>
  /\ outcome = ""
  /\ dist_args \in DistArgs
  /\ dist_ret = NoDist

CallDist ==
  /\ pc = "dist"
  /\ dist_ret' = _get_triple_dist(dist_args[1], dist_args[2], dist_args[3],
                                  dist_args[4], dist_args[5])
  /\ pc' = "dist_done"
  /\ UNCHANGED <<instance, fit_kwargs, inputs, locals, ret, outcome, dist_args>>

SpecDist == InitDist /\ [][CallDist]_vars

(***************************************************************************)
(* Properties                                                              *)
(***************************************************************************)
\* the call returned X[all_idx], y[all_idx] at line 209
Balanced == pc = "done" /\ outcome = "balanced"

\* the call is over
Over == pc \in {"done", "error"}

\* the three groups of lines 145-147, from the inputs of the call
OnesGroup == WhereLabel(train_idx, y, 1)

ZeroRandGroup == {v \in Range(RandPool(query_src)) : y[v] = 0}

ZeroMaxGroup == {v \in Range(MaxPool(query_src)) : y[v] = 0}

\* a fallback test of line 138 or line 149 succeeds on the inputs of the call
FallbackCase ==
  \/ RandPool(query_src) = <<>>
  \/ MaxPool(query_src) = <<>>
  \/ ZeroRandGroup = {}
  \/ ZeroMaxGroup = {}

\* ceil(a/b) in the integers, b > 0
CeilDiv(a, b) == (a + b - 1) \div b

\* C1: a call that takes no fallback path returns an index sequence of
\* length exactly n_mini_epoch * (n_one_epoch + n_zero_rand_epoch +
\* n_zero_max_epoch).
C1_ReturnedLength ==
  Balanced => Len(ret) = n_mini_epoch * (epoch[1] + epoch[2] + epoch[3])

\* C2, as stated: every index of each of the three groups appears at least
\* once in the final ordering of a call that takes no fallback path.
C2_EveryIndexUsed ==
  Balanced =>
    (Range(OnesGroup) \cup ZeroRandGroup \cup ZeroMaxGroup) \subseteq Range(ret)

\* C2, amended: every index of each group whose per-epoch target is
\* positive appears at least once in the final ordering of a call that takes
\* no fallback path.
C2_EveryTargetedIndexUsed ==
  Balanced =>
    /\ epoch[1] > 0 => Range(OnesGroup) \subseteq Range(ret)
    /\ epoch[2] > 0 => ZeroRandGroup \subseteq Range(ret)
    /\ epoch[3] > 0 => ZeroMaxGroup \subseteq Range(ret)

\* two mini epochs are needed to use a zero-max group of two indices
C2_Witness ==
  Balanced /\ n_mini_epoch = 2 /\ epoch[3] = 1 /\ Cardinality(ZeroMaxGroup) = 2

\* C3: with an 'epochs' field in fit_kwargs, a call that takes no fallback
\* path completes and leaves fit_kwargs['epochs'] = ceil(pref_epochs /
\* n_mini_epoch), also for a training index set with no positive label.
C3_EpochsWritten ==
  (Over /\ outcome # "fallback" /\ "epochs" \in DOMAIN fit_kwargs) =>
    /\ outcome = "balanced"
    /\ fit_kwargs.epochs = CeilDiv(pref_epochs, n_mini_epoch)

\* C4: the call returns full_sample(X, y, train_idx), and raises no error,
\* if a candidate pool is empty or a group of zeros is empty; in every other
\* case it does not take the fallback.
C4_FallbackExactly ==
  Over =>
    /\ FallbackCase => outcome = "fallback" /\ ret = full_sample(train_idx)
    /\ ~FallbackCase => outcome # "fallback"

\* both pools have entries, the zero-max group is empty: fallback of line 153
C4_Witness ==
  /\ pc = "done" /\ outcome = "fallback"
  /\ RandPool(query_src) # <<>> /\ MaxPool(query_src) # <<>>
  /\ ZeroMaxGroup = {} /\ ZeroRandGroup # {}
  /\ train_idx # <<>> /\ ret = train_idx

\* C5, as stated: the three groups are pairwise disjoint for every
\* provenance map.
C5_GroupsDisjoint ==
  /\ Range(one_idx) \cap Range(zero_rand_idx) = {}
  /\ Range(one_idx) \cap Range(zero_max_idx) = {}
  /\ Range(zero_rand_idx) \cap Range(zero_max_idx) = {}

\* C5, amended: the ones are disjoint from both groups of zeros for every
\* provenance map, and the two groups of zeros are disjoint if no index is
\* listed both under "max" and under another strategy.
C5_DisjointByLabel ==
  /\ Range(one_idx) \cap Range(zero_rand_idx) = {}
  /\ Range(one_idx) \cap Range(zero_max_idx) = {}
  /\ Range(MaxPool(query_src)) \cap Range(RandPool(query_src)) = {}
       => Range(zero_rand_idx) \cap Range(zero_max_idx) = {}

\* three groups from an index set and two pools that share no index
C5_Witness ==
  /\ pc = "replicate"
  /\ one_idx # <<>> /\ zero_rand_idx # <<>> /\ zero_max_idx # <<>>
  /\ Range(MaxPool(query_src)) \cap Range(RandPool(query_src)) = {}

C7_NoNegativeTarget ==
  (pc = "dist_done" /\ dist_args[2] >= 1 /\ ~dist_ret.err) =>
    /\ dist_ret.zero_rand <= dist_ret.zero
    /\ dist_ret.zero_max >= 0
    /\ dist_args[3] = 0 => dist_ret.zero_rand = dist_ret.zero /\ dist_ret.zero_max = 0

\* C8: every mini epoch holds every index of the ones as often as the ones
\* group does: n_one_epoch = n_one, and slice k of the replicated ones is
\* the ones group for every k < n_mini_epoch.
C8_OnesInEveryMiniEpoch ==
  pc = "build" =>
    /\ epoch[1] = n_one
    /\ \A v \in Pool : y[v] = 1 => Count(new_idx, v) = Count(OnesGroup, v)
    /\ \A k \in 0..(n_mini_epoch - 1) :
         PySlice(one_idx, k * epoch[1], (k + 1) * epoch[1]) = OnesGroup

\* the second mini epoch of a call with two ones, from the doubled array
C8_Witness == pc = "build" /\ i = 2 /\ n_one = 2 /\ Len(one_idx) = 4

\* what the three loops of lines 173-180 leave
LoopsPost ==
  /\ Len(one_idx) >= epoch[1] * n_mini_epoch
  /\ Len(zero_rand_idx) >= epoch[2] * n_mini_epoch
  /\ Len(zero_max_idx) >= epoch[3] * n_mini_epoch
  /\ epoch[1] = 0 => one_idx = OnesGroup
  /\ epoch[2] = 0 => zero_rand_idx = WhereLabel(rand_idx, y, 0)
  /\ epoch[3] = 0 => zero_max_idx = WhereLabel(max_idx, y, 0)

\* C9: the three replication loops terminate, each with its group at least
\* target * n_mini_epoch long, or untouched for a target of 0.
C9_LoopsTerminate ==
  /\ (pc = "replicate") ~> Replicated
  /\ [](Replicated => LoopsPost)

\* the zero-random group was doubled, the zero-max group has target 0
C9_Witness ==
  /\ pc = "replicate" /\ Replicated
  /\ epoch[3] = 0 /\ Len(zero_max_idx) = n_zero_max
  /\ Len(zero_rand_idx) = 2 * n_zero_rand

\* C10: over the rounds of one TripleBalanceTD instance fit_kwargs['epochs']
\* stays in 1..pref_epochs, and after a round that takes no fallback path it
\* is ceil(pref_epochs / n_mini_epoch) of that round.
C10_EpochsOfTheRound ==
  "epochs" \in DOMAIN fit_kwargs =>
    /\ fit_kwargs.epochs \in 1..pref_epochs
    /\ Balanced => fit_kwargs.epochs = CeilDiv(pref_epochs, n_mini_epoch)

\* a round of two mini epochs halves the two epochs asked for
C10_Witness ==
  Balanced /\ pref_epochs = 2 /\ n_mini_epoch = 2 /\ fit_kwargs = [epochs |-> 1]
====
